---- MODULE Spec2Model ----
\* Keysight oscilloscope control (keysight_visa_control.py): the Scope link
\* with its error-queue verification, the generic Setting namespace with its
\* cached state and freshness flag, the four subsystem facades and the
\* KeysightControl controller, against a nondeterministic instrument.
EXTENDS Integers, Sequences, FiniteSets, TLC

\* ---------------------------------------------------------------- bounds
\* operations performed on a constructed controller in one behaviour
MaxOps == 2
\* exchanges of one operation at which the instrument may misbehave
MaxFailAt == 2

Range(s) == {s[i] : i \in 1..Len(s)}

\* Trigger.__init__ query table (lines 144-156)
trigger_queries ==
    << <<"HF_Reject", "HFReject">>,
       <<"Hold-off", "HOLDoff">>,
       <<"Hold-off Maximum", "HOLDoff:MAXimum">>,
       <<"Hold-off Minimum", "HOLDoff:MINimum">>,
       <<"Hold-off Random", "HOLDoff:RANDom">>,
       <<"Mode", "MODE">>,
       <<"Noise reject", "NREJect">>,
       <<"Sweep", "SWEep">>,
       <<"Edge:Coupling", "EDGE:COUPling">>,
       <<"Edge:Reject", "EDGE:REJect">>,
       <<"Edge:Level", "EDGE:LEVel">>,
       <<"Edge:Slope", "EDGE:SLOPe">>,
       <<"Edge:Source", "EDGE:SOURce">> >>

\* Trigger.__init__ allow-list (lines 158-166)
trig_cmds_allwd ==
    ("mode" :> <<"EDGE", "GLITch", "PATTern", "TV", "EBURst", "OR", "RUNT", "SHOLd", "TRANsition", "SBUS">>) @@
    ("force" :> <<>>) @@
    ("edge:source" :> <<"channel1", "channel2", "channel3", "channel4", "external", "line", "wgen", "wgen1", "wgen2", "wmod">>) @@
    ("edge:level" :> <<>>) @@
    ("edge:coupling" :> <<"dc", "ac", "lfreject">>) @@
    ("edge:slope" :> <<"positive", "negative", "either", "alternate">>) @@
    ("edge:reject" :> <<"off", "lfreject", "hfreject">>)

\* Channel.__init__ query table (lines 211-234)
channel_queries ==
    << <<"Bandwidth Limit", "BWLimit">>,
       <<"Coupling", "COUPling">>,
       <<"Display", "DISPlay">>,
       <<"Impedance", "Impedance">>,
       <<"Invert", "INVert">>,
       <<"Label", "LABel">>,
       <<"Offset", "OFFSet">>,
       <<"Probe", "PROBe">>,
       <<"Probe:Button", "PROBe:BTN">>,
       <<"Probe:External", "PROBe:EXTernal">>,
       <<"Probe:External:Gain", "PROBe:EXTernal:GAIN">>,
       <<"Probe:External:Units", "PROBe:EXTernal:UNITs">>,
       <<"Probe:ID", "PROBe:ID">>,
       <<"Probe:Model", "PROBE:MMODel">>,
       <<"Probe:R-Sense", "PROBE:RSENse">>,
       <<"Probe:Skew", "PROBe:SKEW">>,
       <<"Probe:SigType", "PROBe:STYPe">>,
       <<"Probe:Zoom", "PROBe:ZOOM">>,
       <<"Protection", "PROTection">>,
       <<"Range", "RANGe">>,
       <<"Scale", "SCALe">>,
       <<"Units", "UNITs">>,
       <<"Vernier", "VERNier">> >>

\* Channel.__init__ allow-list (lines 236-238)
chan_cmds_allwd ==
    ("scale" :> <<>>) @@
    ("offset" :> <<>>) @@
    ("coupling" :> <<"AC", "DC">>)

\* Timescale.__init__ query table (lines 262-272)
tb_queries ==
    << <<"Mode", "MODE">>,
       <<"Position", "POSition">>,
       <<"Range", "RANGe">>,
       <<"Ref Clock", "REFClock">>,
       <<"Reference", "REFerence">>,
       <<"Reference:Location", "REFerence:LOCation">>,
       <<"Scale", "SCALe">>,
       <<"Vernier", "VERNier">>,
       <<"Window:Position", "WINDow:POSition">>,
       <<"Window:Range", "WINDow:RANGe">>,
       <<"Window:Scale", "WINDow:SCALe">> >>

\* Timescale.__init__ allow-list (lines 274-277)
tb_cmds_allwd ==
    ("scale" :> <<>>) @@
    ("position" :> <<>>) @@
    ("reference" :> <<"left", "right", "center", "custom">>) @@
    ("reference:location" :> <<>>)

\* Waveform.__init__ query table (lines 308-328)
wf_queries ==
    << <<"Byteorder", "BYTeorder">>,
       <<"Count", "COUNt">>,
       <<"Format", "FORMat">>,
       <<"Points", "POINts">>,
       <<"Points:Mode", "POINts:MODE">>,
       <<"Preamble", "PREamble">>,
       <<"Source", "SOURce">>,
       <<"Subsource", "SOURce:SUBSource">>,
       <<"Type", "TYPE">>,
       <<"Unsigned", "UNSigned">>,
       <<"View", "VIEW">>,
       <<"XIncrement", "XINCrement">>,
       <<"XOrigin", "XORigin">>,
       <<"XReference", "XREFerence">>,
       <<"YIncrement", "YINCrement">>,
       <<"YOrigin", "YORigin">>,
       <<"YReference", "YREFerence">> >>

\* Waveform.__init__ allow-list (lines 330-336)
wf_cmds_allwd ==
    ("points:mode" :> <<"normal", "max", "raw">>) @@
    ("points" :> <<>>) @@
    ("source" :> <<"channel1", "channel2", "channel3", "channel4", "function1", "function2", "function3", "function4", "math1", "math2", "math3", "math4", "WMEMory1", "WMEMory2", "WMEMory3", "WMEMory4">>) @@
    ("format" :> <<"word", "byte", "ascii">>)

\* str.lower() on the strings that occur as keys, display names and modes
LowerTable ==
    ("Bandwidth Limit" :> "bandwidth limit") @@
    ("Byteorder" :> "byteorder") @@
    ("Count" :> "count") @@
    ("Coupling" :> "coupling") @@
    ("Display" :> "display") @@
    ("EDGE" :> "edge") @@
    ("EDGE:level" :> "edge:level") @@
    ("EDGE:slope" :> "edge:slope") @@
    ("EDGE:source" :> "edge:source") @@
    ("Edge:Coupling" :> "edge:coupling") @@
    ("Edge:Level" :> "edge:level") @@
    ("Edge:Reject" :> "edge:reject") @@
    ("Edge:Slope" :> "edge:slope") @@
    ("Edge:Source" :> "edge:source") @@
    ("Format" :> "format") @@
    ("GLIT" :> "glit") @@
    ("GLIT:level" :> "glit:level") @@
    ("GLIT:slope" :> "glit:slope") @@
    ("GLIT:source" :> "glit:source") @@
    ("GLITch" :> "glitch") @@
    ("GLITch:level" :> "glitch:level") @@
    ("GLITch:slope" :> "glitch:slope") @@
    ("GLITch:source" :> "glitch:source") @@
    ("HF_Reject" :> "hf_reject") @@
    ("Hold-off" :> "hold-off") @@
    ("Hold-off Maximum" :> "hold-off maximum") @@
    ("Hold-off Minimum" :> "hold-off minimum") @@
    ("Hold-off Random" :> "hold-off random") @@
    ("Impedance" :> "impedance") @@
    ("Invert" :> "invert") @@
    ("Label" :> "label") @@
    ("Mode" :> "mode") @@
    ("Noise reject" :> "noise reject") @@
    ("Offset" :> "offset") @@
    ("Points" :> "points") @@
    ("Points:Mode" :> "points:mode") @@
    ("Position" :> "position") @@
    ("Preamble" :> "preamble") @@
    ("Probe" :> "probe") @@
    ("Probe:Button" :> "probe:button") @@
    ("Probe:External" :> "probe:external") @@
    ("Probe:External:Gain" :> "probe:external:gain") @@
    ("Probe:External:Units" :> "probe:external:units") @@
    ("Probe:ID" :> "probe:id") @@
    ("Probe:Model" :> "probe:model") @@
    ("Probe:R-Sense" :> "probe:r-sense") @@
    ("Probe:SigType" :> "probe:sigtype") @@
    ("Probe:Skew" :> "probe:skew") @@
    ("Probe:Zoom" :> "probe:zoom") @@
    ("Protection" :> "protection") @@
    ("Range" :> "range") @@
    ("Ref Clock" :> "ref clock") @@
    ("Reference" :> "reference") @@
    ("Reference:Location" :> "reference:location") @@
    ("SCALE" :> "scale") @@
    ("Scale" :> "scale") @@
    ("Source" :> "source") @@
    ("Subsource" :> "subsource") @@
    ("Sweep" :> "sweep") @@
    ("TV" :> "tv") @@
    ("Type" :> "type") @@
    ("Units" :> "units") @@
    ("Unsigned" :> "unsigned") @@
    ("Vernier" :> "vernier") @@
    ("View" :> "view") @@
    ("Window:Position" :> "window:position") @@
    ("Window:Range" :> "window:range") @@
    ("Window:Scale" :> "window:scale") @@
    ("XIncrement" :> "xincrement") @@
    ("XOrigin" :> "xorigin") @@
    ("XReference" :> "xreference") @@
    ("YIncrement" :> "yincrement") @@
    ("YOrigin" :> "yorigin") @@
    ("YReference" :> "yreference")
\* a caller-built Setting on the controller's Scope (Setting.__init__ takes
\* its tables as arguments): the ACQuire subsystem with a one-value allow-set
acq_queries ==
    << <<"Type", "TYPE">>,
       <<"Count", "COUNt">> >>

acq_cmds_allwd ==
    ("type" :> <<"NORMal">>) @@
    ("count" :> <<>>)

\* a lower() that leaves the letters as they are
Lower_asis(s) == s

\* str.lower()
Lower(s) == IF s \in DOMAIN LowerTable THEN LowerTable[s] ELSE s

\* F applied to the value of e (e is evaluated once)
Let(e, F(_)) == CHOOSE r \in {F(x) : x \in {e}} : TRUE

\* the namespaces: the seven the controller builds, and the caller-built one
Channels == {"channel1", "channel2", "channel3", "channel4"}
NS == {"trigger", "timebase", "waveform", "acquire"} \cup Channels

cmd_name(ns) ==
    CASE ns = "trigger"  -> "TRIGger"
      [] ns = "channel1" -> "CHANnel1"
      [] ns = "channel2" -> "CHANnel2"
      [] ns = "channel3" -> "CHANnel3"
      [] ns = "channel4" -> "CHANnel4"
      [] ns = "timebase" -> "TIMebase"
      [] ns = "waveform" -> "WAVeform"
      [] ns = "acquire"  -> "ACQuire"

queries(ns) ==
    CASE ns = "trigger"  -> trigger_queries
      [] ns \in Channels -> channel_queries
      [] ns = "timebase" -> tb_queries
      [] ns = "waveform" -> wf_queries
      [] ns = "acquire"  -> acq_queries

alwd_cmds(ns) ==
    CASE ns = "trigger"  -> trig_cmds_allwd
      [] ns \in Channels -> chan_cmds_allwd
      [] ns = "timebase" -> tb_cmds_allwd
      [] ns = "waveform" -> wf_cmds_allwd
      [] ns = "acquire"  -> acq_cmds_allwd

NamesOf == [ns \in NS |-> {queries(ns)[i][1] : i \in 1..Len(queries(ns))}]
Names(ns) == NamesOf[ns]

\* {k.lower(): v for k, v in queries.items()}: a later entry replaces an
\* earlier one with the same lower-cased key
LowersOf ==
    [ns \in NS |->
        [k \in {Lower(n) : n \in NamesOf[ns]} |->
            LET hits == {j \in 1..Len(queries(ns)) : Lower(queries(ns)[j][1]) = k}
                i == CHOOSE j \in hits : \A h \in hits : h <= j
            IN  queries(ns)[i][2]]]
queries_lowers(ns) == LowersOf[ns]

\* ------------------------------------------------------------ wire texts
\* a text is the sequence of its pieces; + is \o
ERRq == <<":", "SYSTem", ":", "ERRor", "?">>
PlusZero == <<"+", "0", ",">>
NoErrorStr == <<"+", "0", ",", "\"No error\"">>
ErrDataRange == <<"-", "2", "2", "2", ",", "\"Data out of range\"">>
ErrHeader == <<"-", "1", "1", "3", ",", "\"Undefined header\"">>

\* f":{cmd_name}:{q}"
QueryText(ns, q) == <<":", cmd_name(ns), ":", q>>
\* f":{cmd_name}:{suffix} {val}"
CommandText(ns, suffix, val) == <<":", cmd_name(ns), ":", suffix, " ", val>>

\* str.find(sub, lo, hi): lowest 0-based index in s[lo:hi], or -1
PyFind(s, sub, lo, hi) ==
    LET h == IF hi < Len(s) THEN hi ELSE Len(s)
        hits == {i \in lo..(h - Len(sub)) : SubSeq(s, i + 1, i + Len(sub)) = sub}
    IN  IF hits = {} THEN -1 ELSE CHOOSE i \in hits : \A j \in hits : i <= j

IsSpace(c) == c \in {" ", "\n", "\r", "\t"}

\* str.strip()
RECURSIVE LStrip(_)
LStrip(s) == IF s # <<>> /\ IsSpace(Head(s)) THEN LStrip(Tail(s)) ELSE s
RECURSIVE RStrip(_)
RStrip(s) == IF s # <<>> /\ IsSpace(s[Len(s)]) THEN RStrip(SubSeq(s, 1, Len(s) - 1)) ELSE s
Strip(s) == RStrip(LStrip(s))

\* ------------------------------------------------------------ exceptions
NoExc == [type |-> "none", args |-> <<>>]
ExcInstrumentFault == [type |-> "Exception", args |-> <<"Exited because of error.">>]
ExcProtocol == [type |-> "ValueError", args |-> <<"MAJOR SYSTEM ERROR">>]
ExcUnknownField(s, short) ==
    [type |-> "ValueError", args |-> <<"'%s' is not a valid editable settings for %s.", s, short>>]
ExcInvalidValue(val) ==
    [type |-> "ValueError", args |-> <<"'%s' is not an allowable input type for this setting.", val>>]
ExcKeyError(s) == [type |-> "KeyError", args |-> <<s>>]
ExcInvalidSession == [type |-> "InvalidSession", args |-> <<"Invalid session handle.">>]

Raise(w, e) == [w EXCEPT !.exc = e]
Failed(w) == w.exc # NoExc

\* ------------------------------------------- the session and the instrument
\* The world an operation runs in: the instrument's settings and error
\* queue, the session, and what this operation has sent, stdout and raised.
\*   n   exchanges (query, command, binary query) started by this operation
\*   orc what the instrument does: at exchange orc.at it takes decision
\*       orc.dec, at every other exchange it takes "ok"
Decisions == {"err1", "err2", "empty"}
Oracles == {[at |-> 0, dec |-> "ok"]} \cup [at : 1..MaxFailAt, dec : Decisions]
Dec(w) == IF w.n = w.orc.at THEN w.orc.dec ELSE "ok"

\* SCPI headers are case-insensitive and accept the long form
Canon(tok) ==
    CASE tok = "WAVEform" -> "WAVeform"
      [] tok = "POINTs"   -> "POINts"
      [] OTHER            -> tok

\* the instrument's header tree: subsystem, and setting within it
PrefixNs == [p \in {cmd_name(ns) : ns \in NS} |-> CHOOSE ns \in NS : cmd_name(ns) = p]
SuffixName ==
    [ns \in NS |->
        [sfx \in {queries(ns)[i][2] : i \in 1..Len(queries(ns))} |->
            queries(ns)[CHOOSE i \in 1..Len(queries(ns)) : queries(ns)[i][2] = sfx][1]]]

NsOfPrefix(p) == IF Canon(p) \in DOMAIN PrefixNs THEN PrefixNs[Canon(p)] ELSE "none"

NameOfSuffix(ns, sfx) ==
    IF ns # "none" /\ Canon(sfx) \in DOMAIN SuffixName[ns]
    THEN SuffixName[ns][Canon(sfx)] ELSE "none"

\* the settings an accepted command changes in the instrument
InstApply(inst, text) ==
    IF text = <<":", "AUToscale">>
    THEN [ns \in NS |->
            IF ns \in Channels \cup {"timebase"}
            THEN [inst[ns] EXCEPT !["Scale"] = "auto"] ELSE inst[ns]]
    ELSE IF Len(text) = 6
    THEN Let(NsOfPrefix(text[2]), LAMBDA ns :
         Let(NameOfSuffix(ns, text[4]), LAMBDA nm :
             IF nm = "none" THEN inst ELSE [inst EXCEPT ![ns][nm] = text[6]]))
    ELSE inst

\* the errors the instrument queues for the exchange it is handling
Queued(w) ==
    CASE Dec(w) = "err1" -> <<ErrDataRange>>
      [] Dec(w) = "err2" -> <<ErrDataRange, ErrHeader>>
      [] OTHER           -> <<>>

\* one exchange on the session: what was sent, by whom (the Scope wrapper or
\* a caller holding the session), and the response read back
Sent(w, kind, text, via, reply) ==
    [w EXCEPT !.wire = Append(@, [kind |-> kind, text |-> text, via |-> via, reply |-> reply])]

\* pyvisa Resource.write(text)
SessionWrite(w, text, via) ==
    IF ~w.open THEN Raise(w, ExcInvalidSession)
    ELSE IF Queued(w) # <<>>
    THEN [Sent(w, "write", text, via, <<>>) EXCEPT !.errq = @ \o Queued(w)]
    ELSE [Sent(w, "write", text, via, <<>>) EXCEPT !.inst = InstApply(w.inst, text)]

\* pyvisa Resource.query(text): the world after it, and the response r
SessionQuery(w, text, via) ==
    IF ~w.open THEN [w |-> Raise(w, ExcInvalidSession), r |-> <<>>]
    ELSE IF text = ERRq
    THEN IF Dec(w) = "empty" THEN [w |-> Sent(w, "query", text, via, <<>>), r |-> <<>>]
         ELSE IF w.errq = <<>>
         THEN [w |-> Sent(w, "query", text, via, NoErrorStr), r |-> NoErrorStr]
         ELSE [w |-> [Sent(w, "query", text, via, Head(w.errq)) EXCEPT !.errq = Tail(@)],
               r |-> Head(w.errq)]
    ELSE Let(NsOfPrefix(text[2]), LAMBDA ns :
         Let(NameOfSuffix(ns, text[4]), LAMBDA nm :
         Let(IF nm = "none" THEN <<>> ELSE <<w.inst[ns][nm], "\n">>, LAMBDA v :
             [w |-> [Sent(w, "query", text, via, v) EXCEPT !.errq = @ \o Queued(w)],
              r |-> v])))

\* pyvisa Resource.query_binary_values(text, datatype='s')
SessionQueryBinary(w, text, via) ==
    IF ~w.open THEN [w |-> Raise(w, ExcInvalidSession), r |-> <<>>]
    ELSE [w |-> [Sent(w, "query_binary", text, via, <<"s1", "s2">>)
                    EXCEPT !.errq = @ \o Queued(w)],
          r |-> <<"s1", "s2">>]

\* pyvisa Resource.close(): releases an open session, ignores a closed one
SessionClose(w) ==
    IF w.open THEN [w EXCEPT !.open = FALSE, !.releases = @ + 1] ELSE w

\* ------------------------------------------------------------------ Scope
Echo(w, fmt, args) == [w EXCEPT !.stdout = Append(@, [fmt |-> fmt, args |-> args])]

\* a verification that reads the error queue a second time before it raises
\* the Instrument Fault
check_instrument_errors_retry(w, command) ==
    IF Failed(w) THEN w
    ELSE Let(SessionQuery(w, ERRq, "Scope"), LAMBDA q :
             IF Failed(q.w) THEN q.w
             ELSE IF q.r # <<>>
             THEN IF PyFind(q.r, PlusZero, 0, 3) = -1
                  THEN Raise(Echo(SessionQuery(q.w, ERRq, "Scope").w,
                                  "ERROR: %s, command: '%s'", <<q.r, command>>),
                             ExcInstrumentFault)
                  ELSE q.w
             ELSE Raise(Echo(Echo(q.w, "ERROR: :SYSTem:ERRor? returned nothing, command: '%s'",
                                  <<command>>),
                             "Exited because of error.", <<>>),
                        ExcProtocol))

\* Scope._check_instrument_errors: every path of the loop body leaves the
\* loop, so the body runs once
check_instrument_errors(w, command) ==
    IF Failed(w) THEN w
    ELSE Let(SessionQuery(w, ERRq, "Scope"), LAMBDA q :
             IF Failed(q.w) THEN q.w
             ELSE IF q.r # <<>>
             THEN IF PyFind(q.r, PlusZero, 0, 3) = -1
                  THEN Raise(Echo(q.w, "ERROR: %s, command: '%s'", <<q.r, command>>),
                             ExcInstrumentFault)
                  ELSE q.w
             ELSE Raise(Echo(Echo(q.w, "ERROR: :SYSTem:ERRor? returned nothing, command: '%s'",
                                  <<command>>),
                             "Exited because of error.", <<>>),
                        ExcProtocol))

\* Scope.query: the world after it, and the value returned
Scope_query(w, q) ==
    IF Failed(w) THEN [w |-> w, r |-> <<>>]
    ELSE Let(SessionQuery([w EXCEPT !.n = @ + 1], q \o <<"?">>, "Scope"), LAMBDA s :
         Let(check_instrument_errors(s.w, q \o <<"?">>), LAMBDA c :
             [w |-> c, r |-> IF Failed(c) THEN <<>> ELSE Strip(s.r)]))

\* Scope.command
Scope_command(w, command) ==
    IF Failed(w) THEN w
    ELSE Let(SessionWrite([w EXCEPT !.n = @ + 1], command, "Scope"), LAMBDA s :
             check_instrument_errors(s, command))

\* Scope.close
Scope_close(w) == IF Failed(w) THEN w ELSE SessionClose(w)

\* ---------------------------------------------------------------- Setting
\* ''.join([x for x in cmd_name if x.isupper()])
cmd_short(ns) ==
    CASE ns = "trigger"  -> "TRIG"
      [] ns \in Channels -> "CHAN"
      [] ns = "timebase" -> "TIM"
      [] ns = "waveform" -> "WAV"
      [] ns = "acquire"  -> "ACQ"

EmptyDict == [x \in {} |-> <<>>]

\* the loop run over the table from its last entry to its first
RECURSIVE refresh_loop_rev(_, _, _, _)
refresh_loop_rev(ns, w, settings, i) ==
    IF Failed(w) \/ i > Len(queries(ns)) THEN [w |-> w, settings |-> settings]
    ELSE Let(Scope_query(w, QueryText(ns, queries(ns)[Len(queries(ns)) + 1 - i][2])), LAMBDA r :
             IF Failed(r.w) THEN [w |-> r.w, settings |-> settings]
             ELSE Let((queries(ns)[Len(queries(ns)) + 1 - i][1] :> Strip(r.r)) @@ settings, LAMBDA s :
                      refresh_loop_rev(ns, r.w, s, i + 1)))

\* the loop of Setting.refresh_state from entry i on: one Scope.query per
\* table entry, in table order, stopping at the first one that raises
RECURSIVE refresh_loop(_, _, _, _)
refresh_loop(ns, w, settings, i) ==
    IF Failed(w) \/ i > Len(queries(ns)) THEN [w |-> w, settings |-> settings]
    ELSE Let(Scope_query(w, QueryText(ns, queries(ns)[i][2])), LAMBDA r :
             IF Failed(r.w) THEN [w |-> r.w, settings |-> settings]
             ELSE Let((queries(ns)[i][1] :> Strip(r.r)) @@ settings, LAMBDA s :
                      refresh_loop(ns, r.w, s, i + 1)))

\* a refresh_state that fills self.state entry by entry instead of a local
\* mapping (lines 114, 119)
refresh_state_inplace(ns, w, o) ==
    IF Failed(w) THEN [w |-> w, o |-> o, ret |-> EmptyDict]
    ELSE IF o.state_in_date THEN [w |-> w, o |-> o, ret |-> o.state]
    ELSE Let(refresh_loop(ns, w, EmptyDict, 1), LAMBDA l :
             IF Failed(l.w)
             THEN [w |-> l.w, o |-> [o EXCEPT !.state = l.settings], ret |-> EmptyDict]
             ELSE [w |-> l.w,
                   o |-> [state |-> l.settings, state_in_date |-> TRUE],
                   ret |-> l.settings])

\* a refresh_state without the state_in_date test of line 110: it queries
\* the instrument on every call
refresh_state_nocache(ns, w, o) ==
    IF Failed(w) THEN [w |-> w, o |-> o, ret |-> EmptyDict]
    ELSE Let(refresh_loop(ns, w, EmptyDict, 1), LAMBDA l :
             IF Failed(l.w) THEN [w |-> l.w, o |-> o, ret |-> EmptyDict]
             ELSE [w |-> l.w,
                   o |-> [state |-> l.settings, state_in_date |-> TRUE],
                   ret |-> l.settings])

\* Setting.refresh_state on the object o = [state, state_in_date]
refresh_state(ns, w, o) ==
    IF Failed(w) THEN [w |-> w, o |-> o, ret |-> EmptyDict]
    ELSE IF o.state_in_date THEN [w |-> w, o |-> o, ret |-> o.state]
    ELSE Let(refresh_loop(ns, w, EmptyDict, 1), LAMBDA l :
             IF Failed(l.w) THEN [w |-> l.w, o |-> o, ret |-> EmptyDict]
             ELSE [w |-> l.w,
                   o |-> [state |-> l.settings, state_in_date |-> TRUE],
                   ret |-> l.settings])

\* a _set that ignores its refresh argument (lines 136-137)
set_norefresh(ns, w, o, key, val, refresh) ==
    Let(Lower(key), LAMBDA s :
        IF Failed(w) THEN [w |-> w, o |-> o]
        ELSE IF s \notin DOMAIN alwd_cmds(ns)
        THEN [w |-> Raise(w, ExcUnknownField(s, cmd_short(ns))), o |-> o]
        ELSE IF Len(alwd_cmds(ns)[s]) > 1 /\ val \notin Range(alwd_cmds(ns)[s])
        THEN [w |-> Raise(w, ExcInvalidValue(val)), o |-> o]
        ELSE IF s \notin DOMAIN queries_lowers(ns)
        THEN [w |-> Raise(w, ExcKeyError(s)), o |-> o]
        ELSE Let(Scope_command(w, CommandText(ns, queries_lowers(ns)[s], val)), LAMBDA c :
                 IF Failed(c) THEN [w |-> c, o |-> o]
                 ELSE [w |-> c, o |-> [o EXCEPT !.state_in_date = FALSE]]))

\* a _set without the assignment state_in_date = False of line 134
set_keepflag(ns, w, o, key, val, refresh) ==
    Let(Lower(key), LAMBDA s :
        IF Failed(w) THEN [w |-> w, o |-> o]
        ELSE IF s \notin DOMAIN alwd_cmds(ns)
        THEN [w |-> Raise(w, ExcUnknownField(s, cmd_short(ns))), o |-> o]
        ELSE IF Len(alwd_cmds(ns)[s]) > 1 /\ val \notin Range(alwd_cmds(ns)[s])
        THEN [w |-> Raise(w, ExcInvalidValue(val)), o |-> o]
        ELSE IF s \notin DOMAIN queries_lowers(ns)
        THEN [w |-> Raise(w, ExcKeyError(s)), o |-> o]
        ELSE Let(Scope_command(w, CommandText(ns, queries_lowers(ns)[s], val)), LAMBDA c :
                 IF Failed(c) THEN [w |-> c, o |-> o]
                 ELSE IF refresh
                 THEN Let(refresh_state(ns, c, o), LAMBDA r : [w |-> r.w, o |-> r.o])
                 ELSE [w |-> c, o |-> o]))

\* Setting._set
set(ns, w, o, key, val, refresh) ==
    Let(Lower(key), LAMBDA s :
        IF Failed(w) THEN [w |-> w, o |-> o]
        ELSE IF s \notin DOMAIN alwd_cmds(ns)
        THEN [w |-> Raise(w, ExcUnknownField(s, cmd_short(ns))), o |-> o]
        ELSE IF Len(alwd_cmds(ns)[s]) > 1 /\ val \notin Range(alwd_cmds(ns)[s])
        THEN [w |-> Raise(w, ExcInvalidValue(val)), o |-> o]
        ELSE IF s \notin DOMAIN queries_lowers(ns)
        THEN [w |-> Raise(w, ExcKeyError(s)), o |-> o]
        ELSE Let(Scope_command(w, CommandText(ns, queries_lowers(ns)[s], val)), LAMBDA c :
                 IF Failed(c) THEN [w |-> c, o |-> o]
                 ELSE IF refresh
                 THEN Let(refresh_state(ns, c, [o EXCEPT !.state_in_date = FALSE]), LAMBDA r :
                          [w |-> r.w, o |-> r.o])
                 ELSE [w |-> c, o |-> [o EXCEPT !.state_in_date = FALSE]]))

\* ------------------------------------------------------------------ state
VARIABLES
    inst,       \* the instrument's settings: namespace -> display name -> value
    errq,       \* the instrument's error queue, oldest first
    open,       \* the session is open
    releases,   \* times the session was released
    objs,       \* namespace -> [state, state_in_date] of its Setting object
    last,       \* the operation just performed: what it sent, stdout, raised
    nops        \* operations performed so far

vars == <<inst, errq, open, releases, objs, last, nops>>

\* ------------------------------------------------------------------ inputs
channel_ids == <<"channel1", "channel2", "channel3", "channel4">>

InitModes == {"EDGE", "GLIT"}

Default(ns, nm) == IF ns = "acquire" /\ nm = "Type" THEN "NORMal" ELSE "d0"

NoOp == [op |-> "init", ns |-> "none", args |-> <<>>, wire |-> <<>>, stdout |-> <<>>,
         exc |-> NoExc, ret |-> <<>>, wasOpen |-> TRUE]

\* the world an operation starts in
Start(orc) ==
    [inst |-> inst, errq |-> errq, open |-> open, releases |-> releases,
     wire |-> <<>>, stdout |-> <<>>, exc |-> NoExc, n |-> 0, orc |-> orc]

\* the state an operation leaves behind
Commit(w, newobjs, op, ns, args, ret) ==
    /\ w.orc.at <= w.n
    /\ inst' = w.inst
    /\ errq' = w.errq
    /\ open' = w.open
    /\ releases' = w.releases
    /\ objs' = newobjs
    /\ last' = [op |-> op, ns |-> ns, args |-> args, wire |-> w.wire,
                stdout |-> w.stdout, exc |-> w.exc,
                ret |-> IF Failed(w) THEN <<>> ELSE ret, wasOpen |-> open]
    /\ nops' = nops + 1

\* -------------------------------------------------- construction (Init)
\* the instrument as found: defaults everywhere, the trigger in some mode
Powered(mode) ==
    [ns \in NS |-> [nm \in Names(ns) |->
        IF ns = "trigger" /\ nm = "Mode" THEN mode ELSE Default(ns, nm)]]

\* Setting.__init__: state_in_date = False, then state = refresh_state()
Setting_init(ns, c) ==
    Let(refresh_state(ns, c.w, [state |-> EmptyDict, state_in_date |-> FALSE]), LAMBDA r :
        [w |-> r.w, objs |-> (ns :> r.o) @@ c.objs])

\* Waveform.default_setup
default_setup(w, o) ==
    Let(set("waveform", w, o, "points:mode", "raw", FALSE), LAMBDA a :
    Let(set("waveform", a.w, a.o, "points", "10240", FALSE), LAMBDA b :
    Let(set("waveform", b.w, b.o, "source", "channel1", FALSE), LAMBDA c :
        set("waveform", c.w, c.o, "format", "byte", FALSE))))

\* Waveform.__init__ with default=True
Waveform_init(c) ==
    Let(Setting_init("waveform", c), LAMBDA s :
    Let(default_setup(s.w, s.objs["waveform"]), LAMBDA d :
        [w |-> d.w, objs |-> [s.objs EXCEPT !["waveform"] = d.o]]))

\* KeysightControl.__init__, then the caller's Setting on the same Scope
Construct(mode) ==
    Let([w |-> [inst |-> Powered(mode), errq |-> <<>>, open |-> TRUE, releases |-> 0,
                wire |-> <<>>, stdout |-> <<>>, exc |-> NoExc, n |-> 0,
                orc |-> [at |-> 0, dec |-> "ok"]],
         objs |-> [x \in {} |-> 0]], LAMBDA c0 :
    Let(Setting_init("trigger", c0), LAMBDA c1 :
    Let(Setting_init("channel1", c1), LAMBDA c2 :
    Let(Setting_init("channel2", c2), LAMBDA c3 :
    Let(Setting_init("channel3", c3), LAMBDA c4 :
    Let(Setting_init("channel4", c4), LAMBDA c5 :
    Let(Setting_init("timebase", c5), LAMBDA c6 :
    Let(Waveform_init(c6), LAMBDA c7 :
        Setting_init("acquire", c7)))))))))

Init ==
    \E mode \in InitModes : \E c \in {Construct(mode)} :
        /\ inst = c.w.inst
        /\ errq = c.w.errq
        /\ open = c.w.open
        /\ releases = c.w.releases
        /\ objs = c.objs
        /\ last = NoOp
        /\ nops = 0

\* ---------------------------------------------------------------- actions
Ready == nops < MaxOps

\* the objects refresh_state is called on: one of each class, two channels
RefreshInputs == NS \ {"channel3", "channel4"}

\* Setting.refresh_state()
RefreshState ==
    /\ Ready
    /\ \E ns \in RefreshInputs, orc \in Oracles :
        \E r \in {refresh_state(ns, Start(orc), objs[ns])} :
            Commit(r.w, [objs EXCEPT ![ns] = r.o], "refresh_state", ns, <<>>, r.ret)

\* the calls of Setting._set explored: namespace, key, value, refresh
SetCalls ==
    { <<"channel1", "scale", "3.00", FALSE>>,
      <<"channel1", "SCALE", "3.00", FALSE>>,
      <<"trigger", "mode", "GLITch", FALSE>>,
      <<"acquire", "count", "8", TRUE>>,
      <<"channel2", "coupling", "GND", FALSE>>,
      <<"timebase", "bogus", "1", FALSE>>,
      <<"acquire", "type", "HRESolution", FALSE>> }

\* Setting._set(s, val, refresh)
Set ==
    /\ Ready
    /\ \E c \in SetCalls, orc \in Oracles :
        \E r \in {set(c[1], Start(orc), objs[c[1]], c[2], c[3], c[4])} :
            Commit(r.w, [objs EXCEPT ![c[1]] = r.o], "_set", c[1], <<c[2], c[3], c[4]>>, <<>>)

\* For the facade and controller methods that only chain _set or
\* Scope.command, the instrument accepts everything or rejects the first
\* command with one error; Set and ScopeCommand explore the other outcomes.
PlainOracles == {o \in Oracles : o.at = 0 \/ (o.at = 1 /\ o.dec = "err1")}

\* a facade method that is one _set on its own namespace
Facade(op, ns, key, val, args) ==
    \E orc \in PlainOracles :
        \E r \in {set(ns, Start(orc), objs[ns], key, val, FALSE)} :
            Commit(r.w, [objs EXCEPT ![ns] = r.o], op, ns, args, <<>>)

\* f"{which}:source" and the like, which being the cached Mode
FmtKey(which, tail) ==
    CASE which = <<"EDGE">>   /\ tail = ":source" -> "EDGE:source"
      [] which = <<"EDGE">>   /\ tail = ":level"  -> "EDGE:level"
      [] which = <<"EDGE">>   /\ tail = ":slope"  -> "EDGE:slope"
      [] which = <<"GLIT">>   /\ tail = ":source" -> "GLIT:source"
      [] which = <<"GLIT">>   /\ tail = ":level"  -> "GLIT:level"
      [] which = <<"GLIT">>   /\ tail = ":slope"  -> "GLIT:slope"
      [] which = <<"GLITch">> /\ tail = ":source" -> "GLITch:source"
      [] which = <<"GLITch">> /\ tail = ":level"  -> "GLITch:level"
      [] which = <<"GLITch">> /\ tail = ":slope"  -> "GLITch:slope"

\* Trigger.set_source(chan)
TriggerSetSource ==
    /\ Ready
    /\ \E chan \in {"channel2"} :
        Facade("Trigger.set_source", "trigger",
               FmtKey(objs["trigger"].state["Mode"], ":source"), chan, <<chan>>)

\* Trigger.set_level(level)
TriggerSetLevel ==
    /\ Ready
    /\ \E level \in {"0.5"} :
        Facade("Trigger.set_level", "trigger",
               FmtKey(objs["trigger"].state["Mode"], ":level"), level, <<level>>)

\* raise ValueError("Only 'EDGE' type triggering currently supported")
ExcUnsupportedMode ==
    [type |-> "ValueError", args |-> <<"Only 'EDGE' type triggering currently supported">>]

\* a set_mode without the guard of lines 194-195
set_mode_noguard(w, o, mode) == set("trigger", w, o, "mode", mode, FALSE)

\* Trigger.set_mode(mode) on the trigger object o
set_mode(w, o, mode) ==
    IF Lower(mode) # "edge"
    THEN [w |-> Raise(w, ExcUnsupportedMode), o |-> o]
    ELSE set("trigger", w, o, "mode", mode, FALSE)

\* the modes set_mode is called with: the supported one, two others of the
\* allow-set, and the supported one in lower case
ModeInputs == {"EDGE", "TV", "GLITch", "edge"}

\* Trigger.set_mode(mode)
TriggerSetMode ==
    /\ Ready
    /\ \E mode \in ModeInputs, orc \in PlainOracles :
        \E r \in {set_mode(Start(orc), objs["trigger"], mode)} :
            Commit(r.w, [objs EXCEPT !["trigger"] = r.o],
                   "Trigger.set_mode", "trigger", <<mode>>, <<>>)

\* Trigger.set_slope(slope)
TriggerSetSlope ==
    /\ Ready
    /\ \E slope \in {"negative"} :
        Facade("Trigger.set_slope", "trigger",
               FmtKey(objs["trigger"].state["Mode"], ":slope"), slope, <<slope>>)

\* Trigger.force()
TriggerForce ==
    /\ Ready
    /\ Facade("Trigger.force", "trigger", "force", "", <<>>)

\* KeysightControl.force_trigger()
ForceTrigger ==
    /\ Ready
    /\ Facade("force_trigger", "trigger", "force", "", <<>>)

\* the channels whose setters are called; channel3 and channel4 run the same
\* code on another prefix
ChannelInputs == {"channel1", "channel2"}

\* Channel.set_scale(scale)
ChannelSetScale ==
    /\ Ready
    /\ \E ch \in ChannelInputs, scale \in {"0.5"} :
        Facade("Channel.set_scale", ch, "scale", scale, <<scale>>)

\* Channel.set_offset(offset)
ChannelSetOffset ==
    /\ Ready
    /\ \E ch \in ChannelInputs, offset \in {"0.1"} :
        Facade("Channel.set_offset", ch, "offset", offset, <<offset>>)

\* Timescale.set_reference(reference, loc)
TimescaleSetReference ==
    /\ Ready
    /\ \E reference \in {"left", "custom"}, loc \in {"0.25"} :
        IF Lower(reference) = "custom"
        THEN \E w \in {Raise(Start([at |-> 0, dec |-> "ok"]),
                            [type |-> "NameError",
                             args |-> <<"name 'self_set' is not defined">>])} :
                Commit(w, objs, "Timescale.set_reference", "timebase", <<reference, loc>>, <<>>)
        ELSE Facade("Timescale.set_reference", "timebase", "reference", reference,
                    <<reference, loc>>)

\* Timescale.set_scale(scale)
TimescaleSetScale ==
    /\ Ready
    /\ \E scale \in {"0.0002"} :
        Facade("Timescale.set_scale", "timebase", "scale", scale, <<scale>>)

\* Waveform.set_pointsmode(mode)
WaveformSetPointsmode ==
    /\ Ready
    /\ \E mode \in {"max"} :
        Facade("Waveform.set_pointsmode", "waveform", "points:mode", mode, <<mode>>)

\* Waveform.set_points(n_points)
WaveformSetPoints ==
    /\ Ready
    /\ \E n_points \in {"500"} :
        Facade("Waveform.set_points", "waveform", "points", n_points, <<n_points>>)

\* Waveform.set_source(source)
WaveformSetSource ==
    /\ Ready
    /\ \E source \in {"channel2"} :
        Facade("Waveform.set_source", "waveform", "source", source, <<source>>)

\* Waveform.set_format(format)
WaveformSetFormat ==
    /\ Ready
    /\ \E format \in {"word"} :
        Facade("Waveform.set_format", "waveform", "format", format, <<format>>)

\* Waveform.default_setup()
WaveformDefaultSetup ==
    /\ Ready
    /\ \E orc \in PlainOracles :
        \E r \in {default_setup(Start(orc), objs["waveform"])} :
            Commit(r.w, [objs EXCEPT !["waveform"] = r.o], "Waveform.default_setup",
                   "waveform", <<>>, <<>>)

\* KeysightControl.autoscale()
Autoscale ==
    /\ Ready
    /\ \E orc \in PlainOracles :
        \E w \in {Scope_command(Start(orc), <<":", "AUToscale">>)} :
            Commit(w, objs, "autoscale", "none", <<>>, <<>>)

\* KeysightControl.setup_capture(source)
setup_capture(w, source) ==
    IF source \notin Range(channel_ids)
    THEN Raise(w, [type |-> "ValueError",
                   args |-> <<"'%s' is not an acceptable channel to source data from.", source>>])
    ELSE Let(Scope_command(w, <<":", "WAVeform", ":", "POINts:MODE", " ", "RAW">>), LAMBDA a :
         Let(Scope_command(a, <<":", "WAVEform", ":", "POINTs", " ", "10240">>), LAMBDA b :
         Let(Scope_command(b, <<":", "WAVeform", ":", "SOURce", " ", source>>), LAMBDA c :
             Scope_command(c, <<":", "WAVeform", ":", "FORMat", " ", "BYTE">>))))

SourceInputs == {"channel2", "channel5"}

SetupCapture ==
    /\ Ready
    /\ \E source \in SourceInputs, orc \in PlainOracles :
        \E w \in {setup_capture(Start(orc), source)} :
            Commit(w, objs, "setup_capture", "none", <<source>>, <<>>)

\* KeysightControl.set_trig_single()
SetTrigSingle ==
    /\ Ready
    /\ \E orc \in PlainOracles :
        \E w \in {Scope_command(Start(orc), <<":", "SINGle">>)} :
            Commit(w, objs, "set_trig_single", "none", <<>>, <<>>)

\* KeysightControl.capture_waveform(source): the binary query is made on the
\* session itself (scope.scope), then verified through the Scope
capture_waveform(w, source) ==
    Let(Scope_command(w, <<":", "WAVeform", ":", "SOURce", " ", source>>), LAMBDA a :
    Let(Scope_command(a, <<":", "WAVEform", ":", "POINTs", " ", "10240">>), LAMBDA b :
    Let(IF Failed(b) THEN [w |-> b, r |-> <<>>]
        ELSE SessionQueryBinary([b EXCEPT !.n = @ + 1],
                                <<":", "WAVeform", ":", "DATA", "?">>, "KeysightControl"),
        LAMBDA q :
    Let(check_instrument_errors(q.w, <<":", "WAVeform", ":", "DATA", "?">>), LAMBDA c :
        [w |-> c, r |-> q.r]))))

CaptureWaveform ==
    /\ Ready
    /\ \E source \in SourceInputs :
       \E orc \in IF source \in Range(channel_ids) THEN Oracles ELSE PlainOracles :
        \E r \in {capture_waveform(Start(orc), source)} :
            Commit(r.w, objs, "capture_waveform", "none", <<source>>, r.r)

\* KeysightControl.close()
Close ==
    /\ Ready
    /\ \E w \in {Scope_close(Start([at |-> 0, dec |-> "ok"]))} :
        Commit(w, objs, "close", "none", <<>>, <<>>)

\* Scope.query(q), called on control.scope
ScopeQuery ==
    /\ Ready
    /\ \E q \in {<<":", "TIMebase", ":", "SCALe">>}, orc \in Oracles :
        \E r \in {Scope_query(Start(orc), q)} :
            Commit(r.w, objs, "Scope.query", "none", q, r.r)

\* Scope.command(command), called on control.scope
ScopeCommand ==
    /\ Ready
    /\ \E c \in {<<":", "RUN">>}, orc \in Oracles :
        \E w \in {Scope_command(Start(orc), c)} :
            Commit(w, objs, "Scope.command", "none", c, <<>>)

Next ==
    \/ RefreshState
    \/ Set
    \/ TriggerSetSource
    \/ TriggerSetLevel
    \/ TriggerSetMode
    \/ TriggerSetSlope
    \/ TriggerForce
    \/ ForceTrigger
    \/ ChannelSetScale
    \/ ChannelSetOffset
    \/ TimescaleSetReference
    \/ TimescaleSetScale
    \/ WaveformSetPointsmode
    \/ WaveformSetPoints
    \/ WaveformSetSource
    \/ WaveformSetFormat
    \/ WaveformDefaultSetup
    \/ Autoscale
    \/ SetupCapture
    \/ SetTrigSingle
    \/ CaptureWaveform
    \/ Close
    \/ ScopeQuery
    \/ ScopeCommand

Spec == Init /\ [][Next]_vars

\* ================================================================ claims
\* what a read-all of the namespace would return now: every setting's
\* response, stripped
ReadAllOf(i, ns) == [nm \in Names(ns) |-> Strip(<<i[ns][nm], "\n">>)]
FreshReadAll(ns) == ReadAllOf(inst, ns)

IsErrQuery(e) == e.kind = "query" /\ e.text = ERRq
\* the exchanges of an operation other than its error queries
Requests(wire) == SelectSeq(wire, LAMBDA e : ~IsErrQuery(e))
ErrQueries(wire) == SelectSeq(wire, LAMBDA e : IsErrQuery(e))
\* the setting queries a full refresh of the namespace sends, in table order
FullQueries(ns) == [i \in 1..Len(queries(ns)) |-> QueryText(ns, queries(ns)[i][2]) \o <<"?">>]
Texts(wire) == [i \in 1..Len(wire) |-> wire[i].text]

\* the step is an operation (not a stuttering step)
Step == nops' = nops + 1

\* ---------------------------------------------------------------- C1
\* the spec's validation rule: the lower-cased key is no key of the
\* allow-list, or its allow-set is non-empty and lacks the value
Rejected(ns, key, val) ==
    \/ Lower(key) \notin DOMAIN alwd_cmds(ns)
    \/ /\ Len(alwd_cmds(ns)[Lower(key)]) > 0
       /\ val \notin Range(alwd_cmds(ns)[Lower(key)])

ValidationError(ns, key, val) ==
    IF Lower(key) \notin DOMAIN alwd_cmds(ns)
    THEN ExcUnknownField(Lower(key), cmd_short(ns))
    ELSE ExcInvalidValue(val)

\* C1: a _set whose key is not in the allow-list, or whose value is not in a
\* non-empty allow-set (of any size, one element included), sends nothing,
\* raises the validation error and leaves the flag and the cached state alone.
C1_ValidationPrecedesIO ==
    [][(Step /\ last'.op = "_set" /\ Rejected(last'.ns, last'.args[1], last'.args[2]))
        => /\ last'.wire = <<>>
           /\ last'.exc = ValidationError(last'.ns, last'.args[1], last'.args[2])
           /\ objs' = objs]_vars

\* ---------------------------------------------------------------- C2
\* C2: whenever a namespace's state_in_date is true, its cached state equals
\* what a fresh read-all of the instrument would return.
C2_FreshnessInvariant ==
    \A ns \in NS : objs[ns].state_in_date => objs[ns].state = FreshReadAll(ns)

\* ---------------------------------------------------------------- C3
\* a refresh_state made while the flag is true returns the cached mapping
\* and changes and sends nothing
CacheHit ==
    (Step /\ last'.op = "refresh_state" /\ objs[last'.ns].state_in_date)
        => /\ last'.wire = <<>>
           /\ last'.exc = NoExc
           /\ last'.ret = objs[last'.ns].state
           /\ objs' = objs /\ inst' = inst /\ errq' = errq

\* two refresh_state calls on one namespace in a row
TwoRefreshes ==
    Step /\ last.op = "refresh_state" /\ last'.op = "refresh_state" /\ last'.ns = last.ns

\* C3 as stated: a warm refresh is a pure cache hit, and of two refresh_state
\* calls in a row the second causes no session I/O.
C3_CacheCoherence_AsStated ==
    [][CacheHit /\ (TwoRefreshes => last'.wire = <<>>)]_vars

\* C3 amended: a warm refresh is a pure cache hit, and of two refresh_state
\* calls in a row, the first of which returned normally, the second causes no
\* session I/O.
C3_CacheCoherence ==
    [][CacheHit /\ ((TwoRefreshes /\ last.exc = NoExc) => last'.wire = <<>>)]_vars

\* a refresh of the waveform namespace (stale after construction) served from
\* the cache a refresh before it filled
C3_Witness ==
    /\ last.op = "refresh_state" /\ last.ns = "waveform"
    /\ last.wire = <<>> /\ last.exc = NoExc
    /\ last.ret = objs["waveform"].state
    /\ last.ret["Format"] = <<"byte">>

\* ---------------------------------------------------------------- C4
\* a _set with refresh=False that returned normally
SetReturned(l) == l.op = "_set" /\ l.args[3] = FALSE /\ l.exc = NoExc

\* the refresh_state call right after such a _set, on its namespace
RefreshAfterSet ==
    Step /\ SetReturned(last) /\ last'.op = "refresh_state" /\ last'.ns = last.ns

\* the refresh sent one query per table entry, rebuilt the state and set the flag
FullRefresh ==
    /\ Texts(Requests(last'.wire)) = FullQueries(last'.ns)
    /\ DOMAIN objs'[last'.ns].state = Names(last'.ns)
    /\ objs'[last'.ns].state = ReadAllOf(inst', last'.ns)
    /\ objs'[last'.ns].state_in_date

AfterSetStale == (Step /\ SetReturned(last')) => ~objs'[last'.ns].state_in_date

\* C4 as stated: after a _set(refresh=False) that returned normally the flag
\* is false, and the very next refresh_state sends one query per table entry,
\* rebuilds the state mapping and sets the flag.
C4_InvalidateOnWrite_AsStated ==
    [][AfterSetStale /\ (RefreshAfterSet => FullRefresh)]_vars

\* C4 amended: after a _set(refresh=False) that returned normally the flag is
\* false, and the very next refresh_state is not served from the cache: it
\* queries the instrument, and if it returns normally it has sent one query
\* per table entry, rebuilt the state mapping and set the flag; if it raises
\* the flag stays false.
C4_InvalidateOnWrite ==
    [][/\ AfterSetStale
       /\ RefreshAfterSet =>
            /\ last'.wire # <<>>
            /\ last'.exc = NoExc => FullRefresh
            /\ last'.exc # NoExc => ~objs'[last'.ns].state_in_date]_vars

\* channel1 re-read in full after _set("scale", "3.00")
C4_Witness ==
    /\ last.op = "refresh_state" /\ last.ns = "channel1" /\ last.exc = NoExc
    /\ Len(Requests(last.wire)) = Len(channel_queries)
    /\ objs["channel1"].state_in_date
    /\ objs["channel1"].state["Scale"] = <<"3.00">>

\* ---------------------------------------------------------------- C5
ScopeCall == last.op \in {"Scope.query", "Scope.command"} /\ last.wasOpen

\* the text Scope.query / Scope.command put on the session
SentText == IF last.op = "Scope.query" THEN last.args \o <<"?">> ELSE last.args

\* the error value's message holds the text
Carries(exc, text) == PyFind(exc.args, text, 0, Len(exc.args)) >= 0

\* C5: Scope.query and Scope.command send their text, then query
\* :SYSTem:ERRor?; a response beginning "+0," is success, any other response
\* makes the call fail with an error value that carries the command text and
\* the device's error string.
C5_ErrorQueueGating ==
    ScopeCall =>
        /\ Len(last.wire) = 2
        /\ last.wire[1].text = SentText
        /\ IsErrQuery(last.wire[2])
        /\ PyFind(last.wire[2].reply, PlusZero, 0, 3) = 0 => last.exc = NoExc
        /\ (last.wire[2].reply # <<>> /\ PyFind(last.wire[2].reply, PlusZero, 0, 3) # 0)
              => /\ last.exc # NoExc
                 /\ Carries(last.exc, SentText)
                 /\ Carries(last.exc, last.wire[2].reply)

\* ---------------------------------------------------------------- C6
\* the operation's last exchange was verified: its error query was answered
Verified == last.wire # <<>> /\ IsErrQuery(last.wire[Len(last.wire)])
               /\ last.wire[Len(last.wire)].reply # <<>>

\* C6: once a transmitted query or command has been verified, successfully
\* or not, the instrument's error queue is empty.
C6_ErrorQueueDrained == Verified => errq = <<>>

\* ---------------------------------------------------------------- C7
\* the error query of the operation's last exchange came back empty
ProtocolViolated == last.wire # <<>> /\ IsErrQuery(last.wire[Len(last.wire)])
                       /\ last.wire[Len(last.wire)].reply = <<>>

\* the kinds (exception classes) of the other failures
InstrumentFaultKind == ExcInstrumentFault.type
ValidationKinds == {ExcUnknownField("k", "S").type, ExcInvalidValue("v").type}

\* C7: an empty response to the error query makes the operation fail with an
\* outcome of a kind of its own, neither the Instrument Fault's nor a
\* validation error's, and the error query is sent once.
C7_ProtocolViolation ==
    ProtocolViolated =>
        /\ last.exc # NoExc
        /\ last.exc.type # InstrumentFaultKind
        /\ last.exc.type \notin ValidationKinds
        /\ Len(ErrQueries(last.wire)) = Len(Requests(last.wire))

\* ---------------------------------------------------------------- C8
\* C8: capture_waveform with a source outside channel1..channel4 fails with
\* Invalid Channel and sends nothing.
C8_InvalidChannel ==
    (last.op = "capture_waveform" /\ last.args[1] \notin Range(channel_ids))
        => last.wire = <<>> /\ last.exc.type = "ValueError"

\* ---------------------------------------------------------------- C9
\* what a complete capture of the source sends, each exchange made by the Scope
CaptureExchanges(source) ==
    << [kind |-> "write", text |-> <<":", "WAVeform", ":", "SOURce", " ", source>>],
       [kind |-> "query", text |-> ERRq],
       [kind |-> "write", text |-> <<":", "WAVEform", ":", "POINTs", " ", "10240">>],
       [kind |-> "query", text |-> ERRq],
       [kind |-> "query_binary", text |-> <<":", "WAVeform", ":", "DATA", "?">>],
       [kind |-> "query", text |-> ERRq] >>

\* C9: capture_waveform on a valid channel sends the source write, the points
\* write and one binary query, in this order, each verified before the next
\* and nothing after a step that faulted, and every exchange goes through the
\* Scope wrapper.
C9_CaptureSequence ==
    (last.op = "capture_waveform" /\ last.args[1] \in Range(channel_ids) /\ last.wasOpen)
        => /\ Len(last.wire) \in {2, 4, 6}
           /\ \A i \in 1..Len(last.wire) :
                /\ last.wire[i].kind = CaptureExchanges(last.args[1])[i].kind
                /\ last.wire[i].text = CaptureExchanges(last.args[1])[i].text
                /\ last.wire[i].via = "Scope"
           /\ last.exc = NoExc <=> Len(last.wire) = 6 /\ Verified
                                     /\ PyFind(last.wire[6].reply, PlusZero, 0, 3) = 0

\* ---------------------------------------------------------------- C10
\* C10: the session is released at most once, and an operation started after
\* close() fails.
C10_ClosedFails ==
    /\ releases <= 1
    /\ ~last.wasOpen => last.exc # NoExc

\* ---------------------------------------------------------------- C11
\* the TRIGger EDGE source command with value channel2
EdgeSourceCmd == <<":", "TRIGger", ":", "EDGE:SOURce", " ", "channel2">>

\* C11: whenever the instrument's trigger mode is EDGE, also right after a
\* set_mode("EDGE") that changed it with no refresh in between,
\* set_source("channel2") transmits the TRIGger EDGE source command with
\* value channel2.
C11_TriggerModeRouting ==
    [][(Step /\ last'.op = "Trigger.set_source" /\ last'.args = <<"channel2">>
             /\ open /\ inst["trigger"]["Mode"] = "EDGE")
          => /\ last'.wire # <<>>
             /\ last'.wire[1].kind = "write"
             /\ last'.wire[1].text = EdgeSourceCmd]_vars

\* ---------------------------------------------------------------- C12
\* C12: Trigger.force() and KeysightControl.force_trigger() transmit exactly
\* one write under the TRIGger prefix with an empty value, followed by the
\* error verification, and then clear the trigger's freshness flag; they do
\* not fail before transmitting.
C12_ForceTransmits ==
    (last.op \in {"Trigger.force", "force_trigger"} /\ last.wasOpen)
        => /\ Len(Requests(last.wire)) = 1
           /\ Len(ErrQueries(last.wire)) = 1
           /\ last.wire[1].kind = "write"
           /\ SubSeq(last.wire[1].text, 1, 3) = <<":", "TRIGger", ":">>
           /\ last.wire[1].text[Len(last.wire[1].text)] = ""
           /\ last.exc = NoExc => ~objs["trigger"].state_in_date

\* ---------------------------------------------------------------- C13
\* the one command set_reference(mode, loc) is to transmit
ReferenceCmd(mode, loc) ==
    IF Lower(mode) = "custom"
    THEN CommandText("timebase", "REFerence:LOCation", loc)
    ELSE CommandText("timebase", "REFerence", mode)

\* C13: Timescale.set_reference(mode, loc) transmits exactly one command: loc
\* to the reference:location field when mode is custom, mode to the reference
\* field when it is left, right or center; the timebase flag is false
\* afterwards.
C13_SetReference ==
    (last.op = "Timescale.set_reference" /\ last.wasOpen)
        => /\ Len(Requests(last.wire)) = 1
           /\ last.wire[1].kind = "write"
           /\ last.wire[1].text = ReferenceCmd(last.args[1], last.args[2])
           /\ last.exc = NoExc => ~objs["timebase"].state_in_date

\* ---------------------------------------------------------------- C14
\* the step is a set_mode call
SetModeStep == Step /\ last'.op = "Trigger.set_mode" /\ open

\* the call failed with e, sent nothing and changed no flag and no cache
FailsClean(e) == last'.exc = e /\ last'.wire = <<>> /\ objs' = objs

SameKey == ("SCALE" :> "scale")

\* what _set with the key l does in the state the step starts in, should the
\* instrument behave as orc says
SetFrom(orc, l) ==
    set(last'.ns, Start(orc), objs[last'.ns], l, last'.args[2], last'.args[3])

\* C15: _set called with a key in another letter case transmits the same
\* command text, and has the same effect on the freshness flag, the cache, the
\* instrument and the caller, as _set called with the key in lower case.
C15_CaseInsensitiveKey ==
    [][(Step /\ last'.op = "_set" /\ last'.args[1] \in DOMAIN SameKey)
          => \E orc \in Oracles :
               \E r \in {SetFrom(orc, SameKey[last'.args[1]])} :
                  /\ r.w.wire = last'.wire
                  /\ r.w.exc = last'.exc
                  /\ r.o = objs'[last'.ns]
                  /\ r.w.inst = inst']_vars

\* _set("SCALE", "3.00") sent :CHANnel1:SCALe 3.00 and cleared the flag
C15_Witness ==
    /\ last.op = "_set" /\ last.ns = "channel1" /\ last.args[1] = "SCALE"
    /\ last.exc = NoExc
    /\ Texts(Requests(last.wire)) = << CommandText("channel1", "SCALe", "3.00") >>
    /\ ~objs["channel1"].state_in_date

\* ---------------------------------------------------------------- C16
\* the _set just made put its command on the link, and did not go on to a
\* refresh that completed
SetTransmitted ==
    /\ last.op = "_set" /\ last.wire # <<>> /\ last.wire[1].kind = "write"
    /\ (last.args[3] = FALSE \/ last.exc # NoExc)

\* C16: once _set has transmitted its command the namespace's flag is false
\* when _set finishes, whether the error verification succeeded or ended in an
\* Instrument Fault or a Protocol Violation.
C16_UnconditionalInvalidation ==
    SetTransmitted => ~objs[last.ns].state_in_date

\* ---------------------------------------------------------------- C17
\* the step is a refresh_state call made while the flag is false
ColdRefresh ==
    Step /\ last'.op = "refresh_state" /\ open /\ ~objs[last'.ns].state_in_date

\* the exchanges are the setting queries of the table's first entries, in
\* table order, each followed by its error query
InTableOrder(wire, ns) ==
    /\ Len(wire) % 2 = 0
    /\ Len(wire) <= 2 * Len(queries(ns))
    /\ \A i \in 1..Len(wire) :
          IF i % 2 = 1
          THEN wire[i].kind = "query" /\ wire[i].text = FullQueries(ns)[(i + 1) \div 2]
          ELSE IsErrQuery(wire[i])

\* every entry of the table was queried; 11 queries for the timebase
AllQueried(wire, ns) ==
    /\ Len(Requests(wire)) = Len(queries(ns))
    /\ ns = "timebase" => Len(Requests(wire)) = 11

NoError(e) == PyFind(e.reply, PlusZero, 0, 3) = 0

\* C17 as stated: a refresh_state made while the flag is false sends one
\* setting query per table entry, in table order, each followed by its own
\* error verification before the next; 11 setting queries for the timebase.
C17_RefreshOrder_AsStated ==
    [][ColdRefresh => /\ InTableOrder(last'.wire, last'.ns)
                      /\ AllQueried(last'.wire, last'.ns)]_vars

\* C17 amended: a refresh_state made while the flag is false sends the
\* setting queries in table order, each followed by its own error
\* verification before the next; it stops at the first verification that does
\* not report no error and raises; when it returns normally it has sent one
\* setting query per table entry, 11 for the timebase.
C17_RefreshOrder ==
    [][ColdRefresh =>
         /\ InTableOrder(last'.wire, last'.ns)
         /\ \A i \in 1..Len(last'.wire) :
               (i % 2 = 0 /\ i < Len(last'.wire)) => NoError(last'.wire[i])
         /\ last'.exc = NoExc => AllQueried(last'.wire, last'.ns)
         /\ last'.exc # NoExc => ~NoError(last'.wire[Len(last'.wire)])]_vars

\* the timebase re-read with 11 queries after a write made it stale
C17_Witness ==
    /\ last.op = "refresh_state" /\ last.ns = "timebase" /\ last.exc = NoExc
    /\ Len(Requests(last.wire)) = 11 /\ Len(ErrQueries(last.wire)) = 11
    /\ objs["timebase"].state_in_date

\* ---------------------------------------------------------------- C18
\* a _set(key, value, refresh=True) on an open session that passes the
\* validation and whose key the command table resolves
SetWithRefresh ==
    /\ last.op = "_set" /\ last.args[3] = TRUE /\ last.wasOpen
    /\ ~Rejected(last.ns, last.args[1], last.args[2])
    /\ Lower(last.args[1]) \in DOMAIN queries_lowers(last.ns)

\* the exchanges after the write and its verification
AfterWrite(wire) == SubSeq(wire, 3, Len(wire))

C19_AtomicRefresh ==
    [][(Step /\ last'.op = "refresh_state" /\ last'.exc # NoExc) => objs' = objs]_vars

\* a refresh that read its first entry and faulted on the second, the whole
\* old mapping still cached
C19_Witness ==
    /\ last.op = "refresh_state" /\ last.wasOpen /\ last.exc # NoExc
    /\ Len(Requests(last.wire)) = 2
    /\ NoError(last.wire[2]) /\ ~NoError(last.wire[4])
    /\ DOMAIN objs[last.ns].state = Names(last.ns)
    /\ ~objs[last.ns].state_in_date

\* ---------------------------------------------------------------- C20
\* the outcome of a verification whose error query was answered with reply
Outcome(reply) ==
    IF reply = <<>> THEN ExcProtocol
    ELSE IF PyFind(reply, PlusZero, 0, 3) = 0 THEN NoExc
    ELSE ExcInstrumentFault

\* C20: the error verification of a Scope.query or Scope.command finishes
\* after one error query, whatever the response (no-error text, fault text or
\* empty), with exactly one of three outcomes: success, Instrument Fault,
\* Protocol Violation; and no operation sends more error queries than it has
\* sent requests.
C20_VerificationTerminates ==
    /\ Len(ErrQueries(last.wire)) <= Len(Requests(last.wire))
    /\ ScopeCall =>
          /\ Len(ErrQueries(last.wire)) = 1
          /\ last.exc \in {NoExc, ExcInstrumentFault, ExcProtocol}
          /\ last.exc = Outcome(last.wire[Len(last.wire)].reply)

\* a Scope.command whose one error query came back empty: Protocol Violation
C20_Witness ==
    /\ last.op = "Scope.command" /\ last.wasOpen
    /\ Len(ErrQueries(last.wire)) = 1
    /\ last.wire[Len(last.wire)].reply = <<>>
    /\ last.exc = ExcProtocol

====
